---- MODULE Spec2Model ----
(***************************************************************************)
(* Model of src/email/message/command/read.rs: the "message read" command  *)
(* (MessageReadCommand::execute), the Display rendering of                 *)
(* StructuredMessages, format_address and extract_body_from_template.      *)
(*                                                                         *)
(* Strings are sequences of one-character strings, so that searching,     *)
(* slicing and joining are computed and not assumed.  An Option<T> is a    *)
(* sequence of length 0 (None) or 1 (Some(x)).                             *)
(***************************************************************************)
EXTENDS Integers, Sequences, FiniteSets, TLC

VARIABLES
    \* ---- the command line and the backend it talks to
    ids,                  \* self.envelopes.ids
    preview,              \* self.preview
    no_headers,           \* self.no_headers
    headers,              \* self.headers
    backendMsgs,          \* what the backend hands back for (folder, ids)
    seen,                 \* the backend's seen flag of every message
    \* ---- one run of execute
    pc,                   \* position inside execute
    emails,               \* the fetched messages
    idx,                  \* loop index of the for loop (0-based)
    structured_messages,  \* the Vec being built
    printer,              \* what printer.out has been given in this run
    calls,                \* backend and render calls issued in this run
    err,                  \* the error execute returned with, if any
    seenAtStart,          \* seen flags when this run began
    prev,                 \* the previous completed run: <<>> or <<record>>
    \* ---- harness for the pure functions
    fnIn, fnOut, fnPc

pipeVars == <<ids, preview, no_headers, headers, backendMsgs, seen, pc, emails,
              idx, structured_messages, printer, calls, err, seenAtStart, prev>>
fnVars == <<fnIn, fnOut, fnPc>>
vars == <<pipeVars, fnVars>>

\* ------------------------------------------------------------------ bounds
MaxIds == 2
MaxFetched == 3
MaxTplLen == 5
MaxMsgs == 3
MaxAddrs == 3
MaxGroups == 1
MaxMembers == 2

\* ------------------------------------------------------- string utilities
None == <<>>
Some(x) == <<x>>
IsSome(o) == Len(o) = 1
Unwrap(o) == o[1]

LFLF == <<"\n", "\n">>
CRLFCRLF == <<"\r", "\n", "\r", "\n">>
CommaSpace == <<",", " ">>

\* str::find: the lowest 0-based byte offset at which pat occurs, -1 for None
StrFind(s, pat) ==
    LET hits == {i \in 0..(Len(s) - Len(pat)) : SubSeq(s, i + 1, i + Len(pat)) = pat}
    IN  IF hits = {} THEN -1
        ELSE CHOOSE i \in hits : \A j \in hits : i <= j

\* s[from..] with a 0-based offset
StrFrom(s, from) == SubSeq(s, from + 1, Len(s))

\* [String]::join(sep)
RECURSIVE JoinFrom(_, _, _, _)
JoinFrom(parts, sep, i, acc) ==
    IF i > Len(parts) THEN acc
    ELSE JoinFrom(parts, sep, i + 1,
                  IF i = 1 THEN parts[i] ELSE acc \o sep \o parts[i])
Join(parts, sep) == JoinFrom(parts, sep, 1, <<>>)

\* ------------------------------------------- extract_body_from_template
extract_body_from_template(tpl) ==
    IF StrFind(tpl, LFLF) # -1 THEN StrFrom(tpl, StrFind(tpl, LFLF) + 2)
    ELSE IF StrFind(tpl, CRLFCRLF) # -1 THEN StrFrom(tpl, StrFind(tpl, CRLFCRLF) + 4)
    ELSE tpl

\* ------------------------------------------- StructuredMessages::fmt
\* the for loop of fmt: f is the formatter's buffer, glue the local variable
RECURSIVE FmtLoop(_, _, _, _)
FmtLoop(msgs, i, glue, f) ==
    IF i > Len(msgs) THEN f
    ELSE FmtLoop(msgs, i + 1, LFLF, (f \o glue) \o msgs[i].body)

\* a plausible slip: the glue is written after every body
RECURSIVE FmtLoopTrailing(_, _, _, _)
FmtLoopTrailing(msgs, i, glue, f) ==
    IF i > Len(msgs) THEN f
    ELSE FmtLoopTrailing(msgs, i + 1, LFLF, (f \o msgs[i].body) \o LFLF)

Display_trailing(msgs) == FmtLoopTrailing(msgs, 1, <<>>, <<>>)

Display(msgs) == FmtLoop(msgs, 1, <<>>, <<>>)

\* ------------------------------------------------------ format_address
\* a plausible slip: map instead of filter_map, an empty entry becomes ""
FormatEntry_keepEmpty(a) ==
    IF IsSome(a.name) /\ IsSome(a.address)
        THEN Some(Unwrap(a.name) \o <<" ", "<">> \o Unwrap(a.address) \o <<">">>)
    ELSE IF IsSome(a.address) THEN Some(Unwrap(a.address))
    ELSE IF IsSome(a.name) THEN Some(Unwrap(a.name))
    ELSE Some(<<>>)

\* the closure of the filter_map over a flat list: Option<String>
FormatEntry(a) ==
    IF IsSome(a.name) /\ IsSome(a.address)
        THEN Some(Unwrap(a.name) \o <<" ", "<">> \o Unwrap(a.address) \o <<">">>)
    ELSE IF IsSome(a.address) THEN Some(Unwrap(a.address))
    ELSE IF IsSome(a.name) THEN Some(Unwrap(a.name))
    ELSE None

\* addrs.iter().filter_map(..).collect::<Vec<_>>()
RECURSIVE FilterMapEntries(_)
FilterMapEntries(addrs) ==
    IF addrs = <<>> THEN <<>>
    ELSE FormatEntry(Head(addrs)) \o FilterMapEntries(Tail(addrs))

\* g.addresses.iter().filter_map(|a| a.address ...).collect::<Vec<_>>()
RECURSIVE FilterMapMembers(_)
FilterMapMembers(addrs) ==
    IF addrs = <<>> THEN <<>>
    ELSE Head(addrs).address \o FilterMapMembers(Tail(addrs))

\* the closure of the map over a group list
FormatGroup(g) ==
    (IF IsSome(g.name) THEN Unwrap(g.name) ELSE <<>>)
        \o <<":", " ">> \o Join(FilterMapMembers(g.addresses), CommaSpace) \o <<";">>

RECURSIVE MapGroups(_)
MapGroups(groups) ==
    IF groups = <<>> THEN <<>>
    ELSE <<FormatGroup(Head(groups))>> \o MapGroups(Tail(groups))

format_address(addr) ==
    IF addr.kind = "List" THEN Join(FilterMapEntries(addr.addrs), CommaSpace)
    ELSE Join(MapGroups(addr.groups), <<" ">>)

\* ------------------------------------------------------------ to_string
DigitChars == <<"0", "1", "2", "3", "4", "5", "6", "7", "8", "9">>
Digit(d) == DigitChars[d + 1]

\* usize::to_string: decimal, no padding
RECURSIVE DecStr(_)
DecStr(n) == IF n < 10 THEN <<Digit(n)>> ELSE DecStr(n \div 10) \o <<Digit(n % 10)>>

Pad2(n) == <<Digit((n \div 10) % 10), Digit(n % 10)>>
Pad4(n) == <<Digit((n \div 1000) % 10), Digit((n \div 100) % 10)>> \o Pad2(n)

\* mail_parser::DateTime::to_rfc3339, called at the date field
to_rfc3339(d) ==
    Pad4(d.year) \o <<"-">> \o Pad2(d.month) \o <<"-">> \o Pad2(d.day) \o <<"T">>
        \o Pad2(d.hour) \o <<":">> \o Pad2(d.minute) \o <<":">> \o Pad2(d.second)
        \o (IF d.tz_before_gmt THEN <<"-">> ELSE <<"+">>)
        \o Pad2(d.tz_hour) \o <<":">> \o Pad2(d.tz_minute)

\* ---------------------------------------------------------- the mailbox
\* The folder's content: three messages.  "raw" is the header block as the
\* template renderer sees it, "parsed" is Ok(parsed) or Err (None).
SubjectName == <<"S", "u", "b", "j", "e", "c", "t">>
FromName == <<"F", "r", "o", "m">>
ToName == <<"T", "o">>

NoParsedHeaders ==
    [from |-> None, to |-> None, cc |-> None, bcc |-> None, subject |-> None,
     date |-> None, message_id |-> None, in_reply_to |-> None]

Msg2 ==
    [raw |-> <<[name |-> SubjectName, value |-> <<"H", "i">>]>>,
     body |-> <<"H", "e", "l", "l", "o">>,
     parsed |-> Some([NoParsedHeaders EXCEPT !.subject = Some(<<"H", "i">>)])]

Msg5 ==
    [raw |-> <<[name |-> SubjectName, value |-> <<"Y", "o">>]>>,
     body |-> <<"P", "\n", "\n", "Q">>,
     parsed |-> None]

Msg1 ==
    [raw |-> <<[name |-> FromName, value |-> <<"A", "l", " ", "<", "a", "@", "x", ">">>],
               [name |-> ToName, value |-> <<"G", ":", " ", "b", "@", "y", ";">>]>>,
     body |-> <<"B">>,
     parsed |-> Some(
        [NoParsedHeaders EXCEPT
            !.from = Some([kind |-> "List",
                           addrs |-> <<[name |-> Some(<<"A", "l">>),
                                        address |-> Some(<<"a", "@", "x">>)],
                                       [name |-> None, address |-> None]>>]),
            !.to = Some([kind |-> "Group",
                         groups |-> <<[name |-> Some(<<"G">>),
                                       addresses |-> <<[name |-> Some(<<"B", "o">>),
                                                        address |-> Some(<<"b", "@", "y">>)]>>]>>]),
            !.date = Some([year |-> 2024, month |-> 3, day |-> 9, hour |-> 7,
                           minute |-> 5, second |-> 0, tz_before_gmt |-> TRUE,
                           tz_hour |-> 1, tz_minute |-> 30]),
            !.message_id = Some(<<"m", "1">>),
            !.in_reply_to = Some(<<<<"r", "1">>, <<"r", "2">>>>)])]

MailboxIds == {<<"1">>, <<"2">>, <<"5">>}
Mailbox == [k \in MailboxIds |->
              IF k = <<"2">> THEN Msg2 ELSE IF k = <<"5">> THEN Msg5 ELSE Msg1]

\* the header list of the account configuration, shown when no flag is given
ConfigHeaders == <<FromName, SubjectName>>

\* the header flag values the command line is drawn from
HeaderFlagValues == {<<>>, <<SubjectName>>}

\* ------------------------------------------------- to_read_tpl (rendering)
\* the closure handed to to_read_tpl: which headers the template shows
ShownHeaders(noHeaders, hdrs) ==
    IF noHeaders THEN <<>>
    ELSE IF hdrs # <<>> THEN hdrs
    ELSE ConfigHeaders

RECURSIVE RawLookup(_, _)
RawLookup(raw, name) ==
    IF raw = <<>> THEN None
    ELSE IF Head(raw).name = name THEN Some(Head(raw).value)
    ELSE RawLookup(Tail(raw), name)

RECURSIVE HeaderLines(_, _)
HeaderLines(raw, shown) ==
    IF shown = <<>> THEN <<>>
    ELSE (IF IsSome(RawLookup(raw, Head(shown)))
            THEN Head(shown) \o <<":", " ">> \o Unwrap(RawLookup(raw, Head(shown))) \o <<"\n">>
            ELSE <<>>)
         \o HeaderLines(raw, Tail(shown))

\* the rendered template: the visible header lines, a blank line, the body
to_read_tpl(email, noHeaders, hdrs) ==
    LET lines == HeaderLines(email.raw, ShownHeaders(noHeaders, hdrs))
    IN  (IF lines = <<>> THEN <<>> ELSE lines \o <<"\n">>) \o email.body

\* ------------------------------------------------------ header extraction
OptMap_format_address(o) == IF IsSome(o) THEN Some(format_address(Unwrap(o))) ELSE None

\* parsed.in_reply_to().as_text_list().and_then(|ids| ids.first()...)
FirstInReplyTo(o) ==
    IF IsSome(o) /\ Unwrap(o) # <<>> THEN Some(Unwrap(o)[1]) ELSE None

DefaultMessageHeaders == NoParsedHeaders

\* the Ok branch: the eight fields read from the parsed message
ParsedMessageHeaders(parsed) ==
    [from |-> OptMap_format_address(parsed.from),
     to |-> OptMap_format_address(parsed.to),
     cc |-> OptMap_format_address(parsed.cc),
     bcc |-> OptMap_format_address(parsed.bcc),
     subject |-> parsed.subject,
     date |-> IF IsSome(parsed.date) THEN Some(to_rfc3339(Unwrap(parsed.date))) ELSE None,
     message_id |-> parsed.message_id,
     in_reply_to |-> FirstInReplyTo(parsed.in_reply_to)]

\* a plausible slip: a failed parse falls back to the subject line of the raw header block
MessageHeadersOf_rawFallback(email) ==
    IF IsSome(email.parsed) THEN ParsedMessageHeaders(Unwrap(email.parsed))
    ELSE [DefaultMessageHeaders EXCEPT !.subject = RawLookup(email.raw, SubjectName)]

\* the `let headers = if let Ok(parsed) = parsed {..} else {..}` expression
MessageHeadersOf(email) ==
    IF IsSome(email.parsed) THEN ParsedMessageHeaders(Unwrap(email.parsed))
    ELSE DefaultMessageHeaders

\* a plausible slip: the fallback counts positions from one
RecordId_oneBased(idList, i) == IF i < Len(idList) THEN idList[i + 1] ELSE DecStr(i + 1)

\* ids.get(idx).map(..).unwrap_or_else(|| idx.to_string()), idx 0-based
RecordId(idList, i) == IF i < Len(idList) THEN idList[i + 1] ELSE DecStr(i)

\* a plausible slip: the structured headers follow the --no-headers flag
StructuredMessageOf_hidden(email, i, idList, noHeaders, hdrs) ==
    [id |-> RecordId(idList, i),
     headers |-> IF noHeaders THEN DefaultMessageHeaders ELSE MessageHeadersOf(email),
     body |-> extract_body_from_template(to_read_tpl(email, noHeaders, hdrs))]

\* the StructuredMessage pushed by one iteration of the for loop
StructuredMessageOf(email, i, idList, noHeaders, hdrs) ==
    [id |-> RecordId(idList, i),
     headers |-> MessageHeadersOf(email),
     body |-> extract_body_from_template(to_read_tpl(email, noHeaders, hdrs))]

\* ------------------------------------------------------------ the command
Range(s) == {s[i] : i \in 1..Len(s)}
SeqsUpTo(S, lo, hi) == UNION {[1..k -> S] : k \in lo..hi}
NoRepeat(s) == \A i, j \in 1..Len(s) : s[i] = s[j] => i = j
\* the id lists the command line is drawn from: 1..MaxIds distinct envelope ids
IdLists == {s \in SeqsUpTo(MailboxIds, 1, MaxIds) : NoRepeat(s)}
\* what the backend may hand back: any messages of the folder, in any order
BackendResponses == SeqsUpTo(MailboxIds, 0, MaxFetched)

\* the state before the first run: ids >= 1 (clap requires one), nothing seen
InitPipe ==
    /\ ids \in IdLists
    /\ backendMsgs \in BackendResponses
    /\ preview = FALSE /\ no_headers = FALSE /\ headers = <<>>
    /\ seen = [k \in MailboxIds |-> FALSE]
    /\ seenAtStart = [k \in MailboxIds |-> FALSE]
    /\ pc = "idle"
    /\ emails = <<>> /\ idx = 0 /\ structured_messages = <<>>
    /\ printer = <<>> /\ calls = <<>> /\ err = "" /\ prev = <<>>

FnOff == fnIn = <<>> /\ fnOut = <<>> /\ fnPc = "off"

Init == InitPipe /\ FnOff

\* the command is started: clap fills the flags (no_headers conflicts with headers)
Invoke ==
    /\ pc = "idle"
    /\ \E p \in BOOLEAN, nh \in BOOLEAN, hs \in HeaderFlagValues :
        /\ ~(nh /\ hs # <<>>)
        /\ preview' = p /\ no_headers' = nh /\ headers' = hs
    /\ pc' = "config"
    /\ emails' = <<>> /\ idx' = 0 /\ structured_messages' = <<>>
    /\ printer' = <<>> /\ calls' = <<>> /\ err' = ""
    /\ seenAtStart' = seen
    /\ UNCHANGED <<ids, backendMsgs, seen, prev, fnVars>>

Fail(kind) ==
    /\ pc' = "error" /\ err' = kind

\* config.into_account_configs(..)?
IntoAccountConfigs ==
    /\ pc = "config"
    /\ pc' = "build"
    /\ UNCHANGED <<ids, preview, no_headers, headers, backendMsgs, seen, emails, idx,
                   structured_messages, printer, calls, err, seenAtStart, prev, fnVars>>

IntoAccountConfigsFails ==
    /\ pc = "config"
    /\ Fail("ConfigError")
    /\ UNCHANGED <<ids, preview, no_headers, headers, backendMsgs, seen, emails, idx,
                   structured_messages, printer, calls, seenAtStart, prev, fnVars>>

\* BackendBuilder::new(..).build().await?
BuildBackend ==
    /\ pc = "build"
    /\ pc' = "fetch"
    /\ UNCHANGED <<ids, preview, no_headers, headers, backendMsgs, seen, emails, idx,
                   structured_messages, printer, calls, err, seenAtStart, prev, fnVars>>

BuildBackendFails ==
    /\ pc = "build"
    /\ Fail("BuildError")
    /\ UNCHANGED <<ids, preview, no_headers, headers, backendMsgs, seen, emails, idx,
                   structured_messages, printer, calls, seenAtStart, prev, fnVars>>

\* a plausible slip: the branches of `if self.preview` swapped
FetchCall_swapped == IF preview THEN "get" ELSE "peek"

\* `if self.preview { peek_messages } else { get_messages }`
FetchCall == IF preview THEN "peek" ELSE "get"

\* the backend's side of the call: get marks what it returns as seen, peek does not
SeenAfter(call) ==
    IF call = "get" THEN [k \in MailboxIds |-> seen[k] \/ k \in Range(backendMsgs)]
    ELSE seen

\* backend.peek_messages / get_messages returned Ok(emails)
FetchMessages ==
    /\ pc = "fetch"
    /\ calls' = Append(calls, FetchCall)
    /\ seen' = SeenAfter(FetchCall)
    /\ emails' = backendMsgs
    /\ pc' = "loop"
    /\ UNCHANGED <<ids, preview, no_headers, headers, backendMsgs, idx,
                   structured_messages, printer, err, seenAtStart, prev, fnVars>>

\* the call returned Err: `?` leaves execute
FetchMessagesFails ==
    /\ pc = "fetch"
    /\ calls' = Append(calls, FetchCall)
    /\ Fail("FetchError")
    /\ UNCHANGED <<ids, preview, no_headers, headers, backendMsgs, seen, emails, idx,
                   structured_messages, printer, seenAtStart, prev, fnVars>>

\* one iteration of the for loop whose to_read_tpl(..).await returned Ok
ProcessMessage ==
    /\ pc = "loop" /\ idx < Len(emails)
    /\ calls' = Append(calls, "render")
    /\ structured_messages' =
          Append(structured_messages,
                 StructuredMessageOf(Mailbox[emails[idx + 1]], idx, ids, no_headers, headers))
    /\ idx' = idx + 1
    /\ UNCHANGED <<ids, preview, no_headers, headers, backendMsgs, seen, pc, emails,
                   printer, err, seenAtStart, prev, fnVars>>

\* a plausible slip: the records built so far are printed before the error is returned
ToReadTplFails_printsPartial ==
    /\ pc = "loop" /\ idx < Len(emails)
    /\ calls' = Append(calls, "render")
    /\ printer' = Append(printer, structured_messages)
    /\ Fail("RenderError")
    /\ UNCHANGED <<ids, preview, no_headers, headers, backendMsgs, seen, emails, idx,
                   structured_messages, seenAtStart, prev, fnVars>>

\* to_read_tpl(..).await returned Err: `?` leaves execute
ToReadTplFails ==
    /\ pc = "loop" /\ idx < Len(emails)
    /\ calls' = Append(calls, "render")
    /\ Fail("RenderError")
    /\ UNCHANGED <<ids, preview, no_headers, headers, backendMsgs, seen, emails, idx,
                   structured_messages, printer, seenAtStart, prev, fnVars>>

\* printer.out(StructuredMessages(structured_messages)) after the loop
PrinterOut ==
    /\ pc = "loop" /\ idx = Len(emails)
    /\ printer' = Append(printer, structured_messages)
    /\ pc' = "done"
    /\ UNCHANGED <<ids, preview, no_headers, headers, backendMsgs, seen, emails, idx,
                   structured_messages, calls, err, seenAtStart, prev, fnVars>>

\* execute has returned and its locals are dropped; the run that printed is
\* remembered for comparison
Return ==
    /\ pc \in {"done", "error"}
    /\ prev' = IF pc = "done"
                 THEN Some([preview |-> preview, no_headers |-> no_headers,
                            headers |-> headers, out |-> printer[1]])
                 ELSE prev
    /\ pc' = "idle"
    /\ emails' = <<>> /\ idx' = 0 /\ structured_messages' = <<>>
    /\ UNCHANGED <<ids, preview, no_headers, headers, backendMsgs, seen,
                   printer, calls, err, seenAtStart, fnVars>>

Next ==
    \/ Invoke
    \/ IntoAccountConfigs
    \/ IntoAccountConfigsFails
    \/ BuildBackend
    \/ BuildBackendFails
    \/ FetchMessages
    \/ FetchMessagesFails
    \/ ProcessMessage
    \/ ToReadTplFails
    \/ PrinterOut
    \/ Return

Spec == Init /\ [][Next]_vars

\* ------------------------------------------- harness of the pure functions
\* the command is not running while a function is exercised on its own
PipeOff ==
    /\ ids = <<<<"2">>>> /\ backendMsgs = <<>>
    /\ preview = FALSE /\ no_headers = FALSE /\ headers = <<>>
    /\ seen = [k \in MailboxIds |-> FALSE]
    /\ seenAtStart = [k \in MailboxIds |-> FALSE]
    /\ pc = "off"
    /\ emails = <<>> /\ idx = 0 /\ structured_messages = <<>>
    /\ printer = <<>> /\ calls = <<>> /\ err = "" /\ prev = <<>>

\* templates: every string over {a, LF, CR} of at most MaxTplLen bytes
Templates == SeqsUpTo({"a", "\n", "\r"}, 0, MaxTplLen)

InitExtract == PipeOff /\ fnIn \in Templates /\ fnOut = <<>> /\ fnPc = "ready"

ExtractBody ==
    /\ fnPc = "ready"
    /\ fnOut' = extract_body_from_template(fnIn)
    /\ fnPc' = "done"
    /\ UNCHANGED <<fnIn, pipeVars>>

NextExtract == ExtractBody

SpecExtract == InitExtract /\ [][NextExtract]_vars

\* collections: at most MaxMsgs records, bodies empty, plain, or holding line
\* feeds, headers absent or with a subject
SubjectHi == [DefaultMessageHeaders EXCEPT !.subject = Some(<<"H", "i">>)]
SampleBodies == {<<>>, <<"a">>, <<"\n">>, <<"a", "b">>}
SampleRecords ==
    {[id |-> <<"2">>, headers |-> h, body |-> b] :
        h \in {DefaultMessageHeaders, SubjectHi}, b \in SampleBodies}
Collections == SeqsUpTo(SampleRecords, 0, MaxMsgs)

InitDisplay == PipeOff /\ fnIn \in Collections /\ fnOut = <<>> /\ fnPc = "ready"

DisplayFmt ==
    /\ fnPc = "ready"
    /\ fnOut' = Display(fnIn)
    /\ fnPc' = "done"
    /\ UNCHANGED <<fnIn, pipeVars>>

NextDisplay == DisplayFmt

SpecDisplay == InitDisplay /\ [][NextDisplay]_vars

\* parsed address fields: flat lists of at most MaxAddrs entries, group lists
\* of at most MaxGroups groups
SampleNames == {None, Some(<<"A">>), Some(<<"B", "o">>)}
SampleAddresses == {None, Some(<<"x">>), Some(<<"y", "@", "z">>)}
SampleEntries == [name : SampleNames, address : SampleAddresses]
SampleMembers == [name : {None, Some(<<"A">>)}, address : {None, Some(<<"x">>)}]
SampleGroups == [name : {None, Some(<<"G">>)}, addresses : SeqsUpTo(SampleMembers, 0, MaxMembers)]
AddressFields ==
    {[kind |-> "List", addrs |-> l] : l \in SeqsUpTo(SampleEntries, 0, MaxAddrs)}
    \cup {[kind |-> "Group", groups |-> g] : g \in SeqsUpTo(SampleGroups, 0, MaxGroups)}

InitAddress ==
    PipeOff /\ fnIn \in AddressFields /\ fnOut = <<>> /\ fnPc = "ready"

FormatAddress ==
    /\ fnPc = "ready"
    /\ fnOut' = format_address(fnIn)
    /\ fnPc' = "done"
    /\ UNCHANGED <<fnIn, pipeVars>>

NextAddress == FormatAddress

SpecAddress == InitAddress /\ [][NextAddress]_vars

\* ================================================================ claims
\* what the run has printed, when it has printed
Out == printer[1]
Running == pc \in {"config", "build", "fetch", "loop", "done", "error"}
EightFields ==
    {"from", "to", "cc", "bcc", "subject", "date", "message_id", "in_reply_to"}
AllAbsent(h) == DOMAIN h = EightFields /\ \A f \in EightFields : h[f] = <<>>
BodyOfRendered(k) ==
    extract_body_from_template(to_read_tpl(Mailbox[k], no_headers, headers))

\* out is exactly parts[1] sep parts[2] sep ... parts[n]: every part sits at
\* the offset the parts and separators before it add up to, a separator sits
\* between two adjacent parts, and nothing comes before, after or in between
RECURSIVE OffsetOf(_, _, _)
OffsetOf(parts, sepLen, k) ==
    IF k = 1 THEN 0 ELSE OffsetOf(parts, sepLen, k - 1) + Len(parts[k - 1]) + sepLen
IsJoinOf(out, parts, sep) ==
    LET n == Len(parts)
        off(k) == OffsetOf(parts, Len(sep), k)
    IN  /\ Len(out) = IF n = 0 THEN 0 ELSE off(n) + Len(parts[n])
        /\ \A k \in 1..n : SubSeq(out, off(k) + 1, off(k) + Len(parts[k])) = parts[k]
        /\ \A k \in 1..(n - 1) :
              SubSeq(out, off(k) + Len(parts[k]) + 1, off(k) + Len(parts[k]) + Len(sep)) = sep

\* C1: under preview=true only peek is called, never get; the seen flag of
\* every message is what it was when the run began; and a run that prints
\* prints the same collection as the previous preview run with the same
\* flags, ids and backend content.
C1_PreviewNeverMutates ==
    (Running /\ preview) =>
        /\ \A i \in 1..Len(calls) : calls[i] # "get"
        /\ (pc \in {"loop", "done"} => calls[1] = "peek")
        /\ seen = seenAtStart
        /\ (pc = "done" /\ IsSome(prev) /\ Unwrap(prev).preview
              /\ Unwrap(prev).no_headers = no_headers /\ Unwrap(prev).headers = headers)
            => Out = Unwrap(prev).out

C1_Witness ==
    /\ pc = "done" /\ preview /\ IsSome(prev) /\ Unwrap(prev).preview
    /\ Unwrap(prev).no_headers = no_headers /\ Unwrap(prev).headers = headers
    /\ Len(Out) >= 2
    /\ \A k \in Range(emails) : seen[k]

IsPermutation(a, b) ==
    /\ Len(a) = Len(b)
    /\ \E f \in [1..Len(a) -> 1..Len(a)] :
          /\ \A i, j \in 1..Len(a) : f[i] = f[j] => i = j
          /\ \A i \in 1..Len(a) : a[i] = b[f[i]]

\* C2 (as claimed): whenever the backend hands back exactly the requested
\* messages, in whatever order, the record at position i carries ids[i] and
\* the headers and body of the message ids[i] identifies.
C2_OutputFollowsIdOrder ==
    (pc = "done" /\ IsPermutation(emails, ids)) =>
        /\ Len(Out) = Len(ids)
        /\ \A i \in 1..Len(Out) :
              /\ Out[i].id = ids[i]
              /\ Out[i].headers = MessageHeadersOf(Mailbox[ids[i]])
              /\ Out[i].body = BodyOfRendered(ids[i])

\* C3: when a fatal step failed (config, backend build, fetch, or the
\* rendering of any message), execute has returned that error and printer.out
\* was not called, whatever had been rendered before.
C3_FatalErrorPrintsNothing ==
    /\ (pc = "error" => err \in {"ConfigError", "BuildError", "FetchError", "RenderError"})
    /\ (err # "" => pc \in {"error", "idle"} /\ printer = <<>>)
    /\ (printer # <<>> => err = "" /\ idx = Len(emails))

C3_Witness ==
    pc = "error" /\ err = "RenderError" /\ Len(structured_messages) >= 1

\* C4: a message whose MIME parse failed still gets its record, with all
\* eight headers absent and the body extracted from its rendered template;
\* the other messages keep the headers their parse gives; the loop goes on
\* past it and the collection printed has one record per fetched message.
C4_ParseFailureIsAbsorbed ==
    /\ \A i \in 1..Len(structured_messages) :
          LET m == Mailbox[emails[i]]
              r == structured_messages[i]
          IN  /\ r.body = BodyOfRendered(emails[i])
              /\ (m.parsed = <<>>) => AllAbsent(r.headers)
              /\ (m.parsed # <<>>) => r.headers = ParsedMessageHeaders(m.parsed[1])
    /\ (pc = "done" => Out = structured_messages /\ Len(Out) = Len(emails))

C4_Witness ==
    /\ pc = "done" /\ Len(Out) = 3
    /\ Mailbox[emails[1]].parsed # <<>>
    /\ Mailbox[emails[2]].parsed = <<>>
    /\ Mailbox[emails[3]].parsed # <<>>
    /\ ~AllAbsent(Out[3].headers)

DecimalOfSmall(n) ==
    CASE n = 0 -> <<"0">> [] n = 1 -> <<"1">> [] n = 2 -> <<"2">> [] n = 3 -> <<"3">>
      [] n = 4 -> <<"4">> [] n = 5 -> <<"5">> [] n = 6 -> <<"6">> [] n = 7 -> <<"7">>
      [] n = 8 -> <<"8">> [] n = 9 -> <<"9">>

\* C5: the printed collection has exactly one record per fetched message, in
\* fetch order; record i (0-based) has id ids[i] when i is inside the id list
\* and the decimal string of i otherwise.
C5_FallbackId ==
    pc = "done" =>
        /\ Len(Out) = Len(emails)
        /\ \A i \in 0..(Len(Out) - 1) :
              /\ i < Len(ids) => Out[i + 1].id = ids[i + 1]
              /\ i >= Len(ids) => Out[i + 1].id = DecimalOfSmall(i)
              /\ Out[i + 1].body = BodyOfRendered(emails[i + 1])

C5_Witness ==
    pc = "done" /\ Len(ids) = 1 /\ Len(emails) = 3 /\ Out[3].id = <<"2">>

BodyAfterLowestSeparator(tpl) ==
    LET lf == StrFind(tpl, LFLF)
        cr == StrFind(tpl, CRLFCRLF)
    IN  IF lf = -1 /\ cr = -1 THEN tpl
        ELSE IF cr = -1 \/ (lf # -1 /\ lf < cr) THEN StrFrom(tpl, lf + 2)
        ELSE StrFrom(tpl, cr + 4)

\* C7 (as claimed): extractBody returns what follows the separator that
\* starts at the lowest byte offset, whichever of LF LF and CR LF CR LF it
\* is; with neither, the template itself.
C7_LowestOffsetSeparator ==
    fnPc = "done" => fnOut = BodyAfterLowestSeparator(fnIn)

BodiesOf(msgs) == [k \in 1..Len(msgs) |-> msgs[k].body]

HasNameOrAddress(a) == a.name # <<>> \/ a.address # <<>>
RenderingOf(a) ==
    CASE a.name # <<>> /\ a.address # <<>> -> a.name[1] \o <<" ", "<">> \o a.address[1] \o <<">">>
      [] a.name = <<>> /\ a.address # <<>> -> a.address[1]
      [] a.name # <<>> /\ a.address = <<>> -> a.name[1]
KeptRenderings(addrs) ==
    LET kept == SelectSeq(addrs, HasNameOrAddress)
    IN  [k \in 1..Len(kept) |-> RenderingOf(kept[k])]

\* C9: a flat list formats as the ", "-join of the renderings of the entries
\* that have a name or an address, in list order; entries with neither add
\* no character and no separator, so the result never starts or ends with
\* the separator nor holds it twice in a row, and is empty when no entry is
\* kept.
C9_FlatListJoin ==
    (fnPc = "done" /\ fnIn.kind = "List") =>
        /\ IsJoinOf(fnOut, KeptRenderings(fnIn.addrs), <<",", " ">>)
        /\ (~\E i \in 1..Len(fnIn.addrs) : HasNameOrAddress(fnIn.addrs[i])) => fnOut = <<>>
        /\ fnOut # <<>> => fnOut[1] # "," /\ fnOut[Len(fnOut)] \notin {",", " "}
        /\ StrFind(fnOut, <<",", " ", ",">>) = -1

C9_Witness ==
    /\ fnPc = "done" /\ fnIn.kind = "List" /\ Len(fnIn.addrs) = 3
    /\ ~HasNameOrAddress(fnIn.addrs[1])
    /\ fnIn.addrs[2].name # <<>> /\ fnIn.addrs[2].address # <<>>
    /\ fnIn.addrs[3].name = <<>> /\ fnIn.addrs[3].address # <<>>
    /\ fnOut = RenderingOf(fnIn.addrs[2]) \o <<",", " ">> \o fnIn.addrs[3].address[1]

\* C10: with preview=false the one get call is issued before any rendering
\* and has marked the fetched messages seen; a run that then fails in
\* rendering ends with the error, nothing printed, and the flags still set.
C10_GetPrecedesRenderAndStays ==
    (Running /\ ~preview) =>
        /\ \A i \in 1..Len(calls) :
              calls[i] = "render" => (i > 1 /\ calls[1] = "get")
        /\ \A i \in 2..Len(calls) : calls[i] = "render"
        /\ (pc \in {"loop", "done"} \/ err = "RenderError") =>
              /\ calls # <<>> /\ calls[1] = "get"
              /\ \A k \in Range(emails) : seen[k]
        /\ err = "RenderError" => printer = <<>>

C10_Witness ==
    /\ pc = "error" /\ err = "RenderError" /\ ~preview
    /\ Len(structured_messages) >= 1
    /\ \E k \in Range(emails) : seen[k] /\ ~seenAtStart[k]

====
